---- MODULE Spec2Model ----
(***************************************************************************)
(* Model of the interval_set crate: Step / Bounded (src/src/traits.rs),    *)
(* Interval (src/src/interval.rs) and IntervalSet with its merge iterator  *)
(* (src/src/set.rs).                                                       *)
(*                                                                         *)
(* The index type Idx is an unsigned Bounded + Step integer type whose     *)
(* values are IdxMIN..IdxMAX; usize is UsizeBits wide.  With the default   *)
(* bounds Idx has more values than usize can count, i.e. Idx is one of the *)
(* "wider than usize" instances of impl_step!.                             *)
(*                                                                         *)
(* A fail-fast (panic) of an operation is modelled as an explicit outcome: *)
(* every fallible function returns a record with a `panicked` field.       *)
(***************************************************************************)
EXTENDS Integers, Sequences, FiniteSets

\* ---------------------------------------------------------------- bounds
IdxMAX == 4
UsizeBits == 2

\* Bounded::MIN / Bounded::MAX of the index type, usize::MAX of the host
IdxMIN == 0
UsizeMAX == 2^UsizeBits - 1
Idx == IdxMIN..IdxMAX

\* ---------------------------------------------------------------- Option
None == [some |-> FALSE]
Some(v) == [some |-> TRUE, val |-> v]

\* Ord::min / Ord::max
Min(x, y) == IF x <= y THEN x ELSE y
Max(x, y) == IF x >= y THEN x ELSE y

\* ------------------------------------------------------------------ Step
\* start.checked_add(1)
forward_checked(start) == IF start = IdxMAX THEN None ELSE Some(start + 1)

\* start.checked_sub(1)
backward_checked(start) == IF start = IdxMIN THEN None ELSE Some(start - 1)

\* forward that returns its argument: the adjacency test loses its `+ 1`
forward_nostep(start) ==
  LET r == forward_checked(start)
  IN  IF r.some THEN [panicked |-> FALSE, val |-> start]
      ELSE [panicked |-> TRUE, val |-> start]

\* forward_checked(start).expect(..): panics on None
forward(start) ==
  LET r == forward_checked(start)
  IN  IF r.some THEN [panicked |-> FALSE, val |-> r.val]
      ELSE [panicked |-> TRUE, val |-> start]

\* backward_checked(start).expect(..): panics on None
backward(start) ==
  LET r == backward_checked(start)
  IN  IF r.some THEN [panicked |-> FALSE, val |-> r.val]
      ELSE [panicked |-> TRUE, val |-> start]

\* steps_between of the unsigned "wider than usize" instances:
\* usize::try_from(end - start), degraded to (usize::MAX, None)
steps_between(start, end) ==
  IF start <= end
  THEN IF end - start <= UsizeMAX
       THEN [lower |-> end - start, exact |-> Some(end - start)]
       ELSE [lower |-> UsizeMAX, exact |-> None]
  ELSE [lower |-> 0, exact |-> None]

\* usize::checked_add
checked_add(x, y) == IF x + y <= UsizeMAX THEN Some(x + y) ELSE None

\* saturating_add that wraps modulo 2^UsizeBits
saturating_add_wrapping(x, y) == (x + y) % (UsizeMAX + 1)

\* usize::saturating_add
saturating_add(x, y) == IF x + y <= UsizeMAX THEN x + y ELSE UsizeMAX

\* -------------------------------------------------------------- Interval
\* Interval::new: assert!(lo <= hi)
Interval_new(lo, hi) ==
  IF lo <= hi THEN [panicked |-> FALSE, val |-> [lo |-> lo, hi |-> hi]]
  ELSE [panicked |-> TRUE, val |-> [lo |-> lo, hi |-> lo]]

\* Interval::size
Interval_size(i) == saturating_add(steps_between(i.lo, i.hi).lower, 1)

\* Interval::size_exact
Interval_size_exact(i) ==
  LET s == steps_between(i.lo, i.hi).exact
  IN  IF s.some THEN checked_add(s.val, 1) ELSE None

\* Interval::hull
Interval_hull(i, other) ==
  [lo |-> Min(i.lo, other.lo), hi |-> Max(i.hi, other.hi)]

\* Interval::intersection that treats a one-value overlap as no overlap
Interval_intersection_strict(i, other) ==
  LET lo == Max(i.lo, other.lo)
      hi == Min(i.hi, other.hi)
  IN  IF lo < hi THEN Some([lo |-> lo, hi |-> hi]) ELSE None

\* Interval::intersection
Interval_intersection(i, other) ==
  LET lo == Max(i.lo, other.lo)
      hi == Min(i.hi, other.hi)
  IN  IF lo <= hi THEN Some([lo |-> lo, hi |-> hi]) ELSE None

\* left part that ends at b.lo instead of predecessor(b.lo)
Interval_difference_left_nobackward(a, b) ==
  IF a.lo < b.lo
  THEN LET n == Interval_new(a.lo, Min(a.hi, b.lo))
       IN  [panicked |-> n.panicked, val |-> Some(n.val)]
  ELSE [panicked |-> FALSE, val |-> None]

\* left part of Interval::difference (lines 106-111)
Interval_difference_left(a, b) ==
  IF a.lo < b.lo
  THEN LET bw == backward(b.lo)
       IN  IF bw.panicked THEN [panicked |-> TRUE, val |-> None]
           ELSE LET n == Interval_new(a.lo, Min(a.hi, bw.val))
                IN  [panicked |-> n.panicked, val |-> Some(n.val)]
  ELSE [panicked |-> FALSE, val |-> None]

\* right part that always starts at successor(b.hi), without max(a.lo, ..)
Interval_difference_right_nomax(a, b) ==
  IF a.hi > b.hi
  THEN LET fw == forward(b.hi)
       IN  IF fw.panicked THEN [panicked |-> TRUE, val |-> None]
           ELSE LET n == Interval_new(fw.val, a.hi)
                IN  [panicked |-> n.panicked, val |-> Some(n.val)]
  ELSE [panicked |-> FALSE, val |-> None]

\* right part guarded by `a.hi >= b.hi`: the test no longer keeps forward away
\* from the maximum, nor Interval::new away from lo > hi
Interval_difference_right_ge(a, b) ==
  IF a.hi >= b.hi
  THEN LET fw == forward(b.hi)
       IN  IF fw.panicked THEN [panicked |-> TRUE, val |-> None]
           ELSE LET n == Interval_new(Max(a.lo, fw.val), a.hi)
                IN  [panicked |-> n.panicked, val |-> Some(n.val)]
  ELSE [panicked |-> FALSE, val |-> None]

\* right part of Interval::difference (lines 113-118)
Interval_difference_right(a, b) ==
  IF a.hi > b.hi
  THEN LET fw == forward(b.hi)
       IN  IF fw.panicked THEN [panicked |-> TRUE, val |-> None]
           ELSE LET n == Interval_new(Max(a.lo, fw.val), a.hi)
                IN  [panicked |-> n.panicked, val |-> Some(n.val)]
  ELSE [panicked |-> FALSE, val |-> None]

\* Interval::difference
Interval_difference(a, b) ==
  LET l == Interval_difference_left(a, b)
      r == Interval_difference_right(a, b)
  IN  [panicked |-> l.panicked \/ r.panicked, left |-> l.val, right |-> r.val]

\* Interval::full
Interval_full == Interval_new(IdxMIN, IdxMAX).val

\* ------------------------------------------------------------ IntervalSet
\* outcome of a set operation: a returned interval list, or a panic
Returned(s) == [panicked |-> FALSE, intervals |-> s]
Panicked == [panicked |-> TRUE, intervals |-> <<>>]

\* the sequence MergeIter yields: repeated MergeIter::next
RECURSIVE MergeIter(_, _)
MergeIter(lhs, rhs) ==
  IF lhs # <<>> /\ rhs # <<>>
  THEN IF Head(lhs).lo <= Head(rhs).lo
       THEN <<Head(lhs)>> \o MergeIter(Tail(lhs), rhs)
       ELSE <<Head(rhs)>> \o MergeIter(lhs, Tail(rhs))
  ELSE IF lhs # <<>> THEN <<Head(lhs)>> \o MergeIter(Tail(lhs), rhs)
  ELSE IF rhs # <<>> THEN <<Head(rhs)>> \o MergeIter(lhs, Tail(rhs))
  ELSE <<>>

\* IntervalSet::empty
IntervalSet_empty == <<>>

\* IntervalSet::interval
IntervalSet_interval(i) == <<i>>

\* IntervalSet::full
IntervalSet_full == <<Interval_full>>

\* the `for interval in iter` loop of IntervalSet::union (lines 101-109)
RECURSIVE union_loop(_, _, _)
union_loop(iter, prev, result) ==
  IF iter = <<>> THEN Returned(Append(result, prev))
  ELSE LET interval == Head(iter)
           fw == forward(prev.hi)
       IN  IF fw.panicked THEN Panicked
           ELSE IF interval.lo <= fw.val
           THEN union_loop(Tail(iter), Interval_hull(prev, interval), result)
           ELSE union_loop(Tail(iter), interval, Append(result, prev))

\* IntervalSet::union
IntervalSet_union(self, other) ==
  LET iter == MergeIter(self, other)
  IN  IF iter = <<>> THEN Returned(<<>>)
      ELSE union_loop(Tail(iter), Head(iter), <<>>)

\* intersection loop that advances prev to every interval, also when
\* interval.hi <= prev.hi
RECURSIVE intersection_loop_always_advance(_, _, _)
intersection_loop_always_advance(iter, prev, result) ==
  IF iter = <<>> THEN Returned(result)
  ELSE LET interval == Head(iter)
       IN  IF interval.lo <= prev.hi
           THEN LET x == Interval_intersection(prev, interval)
                    r == IF x.some THEN Append(result, x.val) ELSE result
                IN  intersection_loop_always_advance(Tail(iter), interval, r)
           ELSE intersection_loop_always_advance(Tail(iter), interval, result)

\* the `for interval in iter` loop of IntervalSet::intersection (lines 127-139)
RECURSIVE intersection_loop(_, _, _)
intersection_loop(iter, prev, result) ==
  IF iter = <<>> THEN Returned(result)
  ELSE LET interval == Head(iter)
       IN  IF interval.lo <= prev.hi
           THEN LET x == Interval_intersection(prev, interval)
                    r == IF x.some THEN Append(result, x.val) ELSE result
                IN  IF interval.hi > prev.hi
                    THEN intersection_loop(Tail(iter), interval, r)
                    ELSE intersection_loop(Tail(iter), prev, r)
           ELSE intersection_loop(Tail(iter), interval, result)

\* IntervalSet::intersection
IntervalSet_intersection(self, other) ==
  LET iter == MergeIter(self, other)
  IN  IF iter = <<>> THEN Returned(<<>>)
      ELSE intersection_loop(Tail(iter), Head(iter), <<>>)

\* slice::Iter::next: the item, and the iterator after it
iter_next(it) ==
  IF it = <<>> THEN [item |-> None, rest |-> <<>>]
  ELSE [item |-> Some(Head(it)), rest |-> Tail(it)]

\* the `while let (Some(a), Some(b))` loop of IntervalSet::difference and the
\* two statements after it (lines 158-173)
RECURSIVE difference_loop(_, _, _, _, _)
difference_loop(a_int, a_iter, b_int, b_iter, result) ==
  IF a_int.some /\ b_int.some
  THEN LET d == Interval_difference(a_int.val, b_int.val)
           r == IF d.left.some THEN Append(result, d.left.val) ELSE result
       IN  IF d.panicked THEN Panicked
           ELSE IF d.right.some
           THEN LET nb == iter_next(b_iter)
                IN  difference_loop(d.right, a_iter, nb.item, nb.rest, r)
           ELSE LET na == iter_next(a_iter)
                IN  difference_loop(na.item, na.rest, b_int, b_iter, r)
  ELSE Returned((IF a_int.some THEN Append(result, a_int.val) ELSE result)
                \o a_iter)

\* IntervalSet::difference
IntervalSet_difference(self, other) ==
  LET na == iter_next(self)
      nb == iter_next(other)
  IN  difference_loop(na.item, na.rest, nb.item, nb.rest, <<>>)

\* complement with the operands of difference swapped
IntervalSet_complement_swapped(self) ==
  IntervalSet_difference(self, IntervalSet_full)

\* IntervalSet::complement
IntervalSet_complement(self) == IntervalSet_difference(IntervalSet_full, self)

\* IntervalSet::size
RECURSIVE size_loop(_, _)
size_loop(iter, size) ==
  IF iter = <<>> THEN size
  ELSE LET sum == checked_add(size, Interval_size(Head(iter)))
       IN  IF sum.some THEN size_loop(Tail(iter), sum.val) ELSE UsizeMAX

IntervalSet_size(self) == size_loop(self, 0)

\* IntervalSet::size_exact
RECURSIVE size_exact_loop(_, _)
size_exact_loop(iter, size) ==
  IF iter = <<>> THEN Some(size)
  ELSE LET e == Interval_size_exact(Head(iter))
       IN  IF ~e.some THEN None
           ELSE LET sum == checked_add(size, e.val)
                IN  IF sum.some THEN size_exact_loop(Tail(iter), sum.val)
                    ELSE None

IntervalSet_size_exact(self) == size_exact_loop(self, 0)

\* ------------------------------------------------------------------ state
\* a, b     : two IntervalSet values owned by the caller (interval lists)
\* res      : the set returned by the last operation and not yet moved by the
\*            caller; <<>> when the operation returned no set or panicked
\* op       : the last operation
\* recv, arg: the `self` and `other` the last operation was called with
\*            (for insert: the receiver before the call, and `tmp`)
\* panicked : the last operation failed fast
\* count    : the Option<usize> returned by size (always Some) / size_exact
VARIABLES a, b, res, op, recv, arg, panicked, count
vars == <<a, b, res, op, recv, arg, panicked, count>>

\* the values an impl Into<Interval<Idx>> argument can convert to:
\* RangeInclusive lo..=hi (and a single value when lo = hi)
Intervals == {[lo |-> l, hi |-> h] : l \in Idx, h \in Idx} \
             {i \in [lo : Idx, hi : Idx] : i.lo > i.hi}

Init ==
  /\ a = IntervalSet_empty
  /\ b = IntervalSet_empty
  /\ res = IntervalSet_empty
  /\ op = "empty"
  /\ recv = <<>>
  /\ arg = <<>>
  /\ panicked = FALSE
  /\ count = None

\* a constructor or operation returned `out` (or panicked); a and b are untouched
Call(name, self, other, out) ==
  /\ op' = name
  /\ recv' = self
  /\ arg' = other
  /\ panicked' = out.panicked
  /\ res' = out.intervals
  /\ count' = None
  /\ UNCHANGED <<a, b>>

Empty == Call("empty", <<>>, <<>>, Returned(IntervalSet_empty))

IntervalOp == \E i \in Intervals :
  Call("interval", <<>>, <<>>, Returned(IntervalSet_interval(i)))

Full == Call("full", <<>>, <<>>, Returned(IntervalSet_full))

Union == \E self \in {a, b}, other \in {a, b} :
  Call("union", self, other, IntervalSet_union(self, other))

Intersection == \E self \in {a, b}, other \in {a, b} :
  Call("intersection", self, other, IntervalSet_intersection(self, other))

Difference == \E self \in {a, b}, other \in {a, b} :
  Call("difference", self, other, IntervalSet_difference(self, other))

Complement == \E self \in {a, b} :
  Call("complement", self, <<>>, IntervalSet_complement(self))

\* insert that takes the receiver's list out before computing the union
\* (`let old = mem::take(self); *self = old.union(&tmp)`): a panic leaves
\* the receiver empty
Insert_take_first == \E i \in Intervals :
  LET tmp == IntervalSet_interval(i)
      out == IntervalSet_union(a, tmp)
  IN  /\ op' = "insert"
      /\ recv' = a
      /\ arg' = tmp
      /\ panicked' = out.panicked
      /\ a' = out.intervals
      /\ res' = <<>>
      /\ count' = None
      /\ UNCHANGED b

\* IntervalSet::insert on the set a: `*self = self.union(&tmp)`; when union
\* panics the assignment never happens
Insert == \E i \in Intervals :
  LET tmp == IntervalSet_interval(i)
      out == IntervalSet_union(a, tmp)
  IN  /\ op' = "insert"
      /\ recv' = a
      /\ arg' = tmp
      /\ panicked' = out.panicked
      /\ a' = IF out.panicked THEN a ELSE out.intervals
      /\ res' = <<>>
      /\ count' = None
      /\ UNCHANGED b

Size == \E self \in {a, b} :
  /\ op' = "size"
  /\ recv' = self
  /\ arg' = <<>>
  /\ panicked' = FALSE
  /\ count' = Some(IntervalSet_size(self))
  /\ res' = <<>>
  /\ UNCHANGED <<a, b>>

SizeExact == \E self \in {a, b} :
  /\ op' = "size_exact"
  /\ recv' = self
  /\ arg' = <<>>
  /\ panicked' = FALSE
  /\ count' = IntervalSet_size_exact(self)
  /\ res' = <<>>
  /\ UNCHANGED <<a, b>>

\* the caller moves the returned set into a or b (`let a = res;`)
BindA ==
  /\ op \in {"empty", "interval", "full", "union", "intersection",
             "difference", "complement"}
  /\ ~panicked
  /\ a' = res
  /\ res' = <<>>
  /\ op' = "let"
  /\ recv' = <<>>
  /\ arg' = <<>>
  /\ count' = None
  /\ UNCHANGED <<b, panicked>>

BindB ==
  /\ op \in {"empty", "interval", "full", "union", "intersection",
             "difference", "complement"}
  /\ ~panicked
  /\ b' = res
  /\ res' = <<>>
  /\ op' = "let"
  /\ recv' = <<>>
  /\ arg' = <<>>
  /\ count' = None
  /\ UNCHANGED <<a, panicked>>

Next ==
  \/ Empty
  \/ IntervalOp
  \/ Full
  \/ Union
  \/ Intersection
  \/ Difference
  \/ Complement
  \/ Insert
  \/ Size
  \/ SizeExact
  \/ BindA
  \/ BindB

Spec == Init /\ [][Next]_vars

\* ------------------------------------------------------- reading a set
\* the logical membership of an interval list
Members(s) == UNION {s[k].lo..s[k].hi : k \in 1..Len(s)}

\* canonical form: lo <= hi, and successor(A.hi) < B.lo for consecutive A, B
Canonical(s) ==
  /\ \A k \in 1..Len(s) : s[k].lo \in Idx /\ s[k].hi \in Idx /\ s[k].lo <= s[k].hi
  /\ \A k \in 1..(Len(s) - 1) : s[k].hi + 1 < s[k + 1].lo

\* the true element count of a set
ElementCount(s) == Cardinality(Members(s))

\* ---------------------------------------------------------------- claims
\* C1: canonical form is an invariant: every set a caller holds (a, b, the
\* receiver of insert) and every returned set (res) has lo <= hi in every
\* interval and successor(A.hi) < B.lo for consecutive intervals A, B.
CanonicalForm == Canonical(a) /\ Canonical(b) /\ Canonical(res)

\* a union of a two-interval set with a one-interval set that coalesced the
\* argument into one of the receiver's intervals and returned two intervals
CanonicalFormWitness ==
  /\ op = "union" /\ ~panicked
  /\ Len(recv) = 2 /\ Len(arg) = 1 /\ Len(res) = 2
  /\ Canonical(a) /\ Len(a) = 2

\* C2: union never calls Step::forward on the type's maximum, i.e. union
\* never fails fast on canonical inputs (forward is its only panic site).
UnionNeverForwardsMax == (op = "union") => ~panicked

\* C3: union is idempotent: a.union(a) returns a's interval list, also when
\* a's last interval ends at the type's maximum.
UnionIdempotent == (op = "union" /\ recv = arg) => (~panicked /\ res = recv)

\* C4: union is commutative: a.union(b) and b.union(a) have the same outcome
\* (both return, or both fail) and, when they return, the same interval list.
UnionCommutative ==
  (op = "union") =>
    LET o == IntervalSet_union(arg, recv)
    IN  /\ o.panicked = panicked
        /\ ~panicked => o.intervals = res

\* C5: insert completes and leaves the receiver as the canonical set whose
\* membership is the old membership plus the inserted interval.
InsertAddsInterval ==
  (op = "insert") =>
    /\ ~panicked
    /\ Canonical(a)
    /\ Members(a) = Members(recv) \cup Members(arg)

\* C6: difference returns exactly the relative complement: the membership of
\* A.difference(B) is the members of A that are not members of B, and with B
\* exhausted (here: empty) the intervals of A are returned unchanged.
DifferenceExact ==
  (op = "difference") =>
    /\ ~panicked
    /\ Members(res) = Members(recv) \ Members(arg)
    /\ arg = <<>> => res = recv

\* one interval of A trimmed by two intervals of B into three pieces
DifferenceExactWitness ==
  /\ op = "difference" /\ ~panicked
  /\ Len(recv) = 1 /\ Len(arg) = 2 /\ Len(res) = 3

\* C7: A.intersection(B).union(A.difference(B)) returns and is A's interval
\* list, for the operands A, B of every difference call.
IntersectionUnionDifference ==
  (op = "difference") =>
    LET i == IntervalSet_intersection(recv, arg)
        u == IntervalSet_union(i.intervals, res)
    IN  ~panicked /\ ~i.panicked /\ ~u.panicked /\ u.intervals = recv

\* A reaches the type's maximum and is split by B into a kept and a removed part
IntersectionUnionDifferenceWitness ==
  /\ op = "difference" /\ ~panicked
  /\ res # <<>> /\ res # recv
  /\ IntervalSet_intersection(recv, arg).intervals # <<>>
  /\ IdxMAX \in Members(recv) /\ IdxMAX \in Members(arg)

\* C8: complement is an involution: the complement of the returned complement
\* is the receiver; full().complement() is empty, empty().complement() is full.
ComplementInvolution ==
  (op = "complement") =>
    LET c == IntervalSet_complement(res)
    IN  /\ ~panicked /\ ~c.panicked /\ c.intervals = recv
        /\ recv = IntervalSet_full => res = IntervalSet_empty
        /\ recv = IntervalSet_empty => res = IntervalSet_full

\* the complement of a set that touches both MIN and MAX
ComplementInvolutionWitness ==
  /\ op = "complement" /\ ~panicked
  /\ Len(recv) = 2 /\ recv[1].lo = IdxMIN /\ recv[2].hi = IdxMAX
  /\ Len(res) = 1

\* C9: A.difference(B) is the same interval list as
\* A.intersection(B.complement()).
DifferenceIsIntersectionWithComplement ==
  (op = "difference") =>
    LET c == IntervalSet_complement(arg)
        i == IntervalSet_intersection(recv, c.intervals)
    IN  ~panicked /\ ~c.panicked /\ ~i.panicked /\ i.intervals = res

\* both operands have two intervals and the difference is neither empty nor A
DifferenceIsIntersectionWithComplementWitness ==
  /\ op = "difference" /\ ~panicked
  /\ Len(recv) = 2 /\ Len(arg) = 2
  /\ res # <<>> /\ res # recv

\* C10: size() is min(element count, usize::MAX), and size_exact() is
\* Some(element count) exactly when the element count fits usize.
SizeNeverWraps ==
  /\ (op = "size") =>
       count = Some(Min(ElementCount(recv), UsizeMAX))
  /\ (op = "size_exact") =>
       count = IF ElementCount(recv) <= UsizeMAX
               THEN Some(ElementCount(recv)) ELSE None

\* every interval has an exact size, but the running sum overflows usize
SizeNeverWrapsWitness ==
  /\ op = "size_exact" /\ count = None
  /\ Len(recv) = 2
  /\ \A k \in 1..Len(recv) : Interval_size_exact(recv[k]).some

\* C11: intersection needs no coalescing pass: the result is exactly the
\* non-empty pairwise intersections of an interval of A with an interval of
\* B, each once, in increasing order of lower bound, pairwise neither
\* overlapping nor adjacent, and its membership is the members of both.
OverlapPairs(A, B) ==
  {p \in (1..Len(A)) \X (1..Len(B)) :
     A[p[1]].lo <= B[p[2]].hi /\ B[p[2]].lo <= A[p[1]].hi}

PieceOf(A, B, p) ==
  [lo |-> Max(A[p[1]].lo, B[p[2]].lo), hi |-> Min(A[p[1]].hi, B[p[2]].hi)]

IntersectionPairwisePieces ==
  (op = "intersection") =>
    /\ ~panicked
    /\ Len(res) = Cardinality(OverlapPairs(recv, arg))
    /\ {res[k] : k \in 1..Len(res)} =
         {PieceOf(recv, arg, p) : p \in OverlapPairs(recv, arg)}
    /\ \A k \in 1..(Len(res) - 1) : res[k].hi + 1 < res[k + 1].lo
    /\ Members(res) = Members(recv) \cap Members(arg)

\* one interval of A overlapped by two intervals of B: prev stays on A's
\* interval because the first interval of B does not reach past it
IntersectionPairwisePiecesWitness ==
  /\ op = "intersection" /\ ~panicked
  /\ Len(recv) = 1 /\ Len(arg) = 2 /\ Len(res) = 2

\* C12: difference and complement never fail fast: no call of backward on
\* MIN, of forward on MAX, or of Interval::new with lo > hi is reached (these
\* are the only panic sites of Interval::difference), whatever extremes the
\* operands contain.
DifferenceNeverFailsFast ==
  (op \in {"difference", "complement"}) => ~panicked

\* both operands of a difference contain MIN and MAX, and the subtrahend has
\* a gap, so something is returned
DifferenceNeverFailsFastWitness ==
  /\ op = "difference" /\ ~panicked
  /\ {IdxMIN, IdxMAX} \subseteq Members(recv)
  /\ {IdxMIN, IdxMAX} \subseteq Members(arg)
  /\ Len(arg) = 2 /\ res # <<>>

\* C13: frame of the set operations: union, intersection, difference and
\* complement leave both sets of the caller unchanged and are called with
\* them; insert changes only its receiver a, and when insert fails fast the
\* receiver still holds its previous, canonical value.
OperationFrame ==
  [][/\ (op' \in {"union", "intersection", "difference", "complement"}) =>
          (a' = a /\ b' = b /\ recv' \in {a', b'})
     /\ (op' = "insert") =>
          /\ b' = b
          /\ recv' = a
          /\ panicked' => (a' = a /\ Canonical(a'))]_vars

\* an insert that failed fast on a non-empty receiver, which is unchanged
OperationFrameWitness ==
  /\ op = "insert" /\ panicked
  /\ a = recv /\ a # <<>> /\ b # <<>>

====
